---- MODULE Spec2Model ----
(***************************************************************************)
(* Model of DelayInput.py: the typing-session controller (MainWindow), the *)
(* background TypingWorker threads it starts, the queued Qt notifications  *)
(* between them, and the global-hotkey binding.                            *)
(*                                                                         *)
(* Threads.  MainWindow handlers run on the GUI event loop, one at a time, *)
(* so each handler is one atomic action.  TypingWorker.run executes on a    *)
(* threading.Thread; it is cut at every point where it reads or writes a    *)
(* field the GUI thread also touches (_stop_flag, _pause_flag,              *)
(* target_window_title).  Signals emitted by a worker are delivered to the  *)
(* MainWindow slots through the GUI thread's event queue (queued            *)
(* connection, the emitter is not the receiver's thread): variable queue.   *)
(***************************************************************************)
EXTENDS Integers, Sequences, FiniteSets, TLC

\* ---------------------------------------------------------------- bounds
MaxWorkers == 3      \* number of sessions begun (TypingWorker objects constructed)
MaxLen == 2          \* longest text in the text box
MaxJitter == 1       \* largest value of the two jitter spin boxes
MaxBindings == 2     \* bindings left active in the keyboard library at once
MaxExtra == 1        \* characters beyond one full batch in the longest plain run
MaxDelayTicks == 1   \* largest start/resume delay, in timer ticks

\* ------------------------------------------------------ program constants
STATE_IDLE == 0
STATE_COUNTDOWN == 1
STATE_TYPING == 2
STATE_PAUSED == 3
max_chunk == 40
step == 100

\* ------------------------------------------------------------ environment
None == "None"
\* hotkey_handle is None: no combination is bound (a bound handle is modelled
\* by the combination it was registered for)
NoHandle == <<>>
\* titles the foreground-window query can report; WindowTitle is the
\* control surface's own title (setWindowTitle in MainWindow.__init__)
WindowTitle == "DelayInput"
OtherTitles == {"A", "B"}

\* code points used in texts: 97 'a' (plain), 10 '\n'
Chars == {97, 10}
RECURSIVE SeqsUpTo(_, _)
SeqsUpTo(S, n) ==
    IF n = 0 THEN {<<>>}
    ELSE LET shorter == SeqsUpTo(S, n - 1)
         IN shorter \cup {Append(s, c) : s \in {t \in shorter : Len(t) = n - 1}, c \in S}
Texts == SeqsUpTo(Chars, MaxLen)
JitterValues == 0..MaxJitter
DelayValues == {step * k : k \in 0..MaxDelayTicks}

VARIABLES
    state,                \* MainWindow.state
    current_countdown_ms, \* MainWindow.current_countdown_ms
    current_resume_ms,    \* MainWindow.current_resume_ms
    countdown_timer,      \* countdown_timer.isActive()
    resume_timer,         \* resume_timer.isActive()
    typing_worker,        \* MainWindow.typing_worker: 0 (None) or index into workers
    status,               \* status label: <<message, is_error>>
    btn_start_enabled,    \* btn_start.isEnabled()
    workers,              \* every TypingWorker constructed so far, with its thread
    queue,                \* queued signal deliveries to the GUI thread, FIFO
    text_edit,            \* text_edit.toPlainText()
    speed_spin,           \* speed_spin.value()
    random_checkbox,      \* random_checkbox.isChecked()
    rand_min_spin,        \* rand_min_spin.value()
    rand_max_spin,        \* rand_max_spin.value()
    start_delay_spin,     \* start_delay_spin.value()
    windows,              \* titles of the other applications' windows on the desktop
    session_limit,        \* how many sessions the scenario lets the user begin
    main_keys,            \* the main keys of the scenario's keyboard
    lib_faults,           \* the keyboard-library calls that can raise in the scenario
    hotkey_str,           \* MainWindow.hotkey_str
    hotkey_handle,        \* MainWindow.hotkey_handle: None or the combination bound
    hotkey_occupied,      \* MainWindow.hotkey_occupied
    capturing,            \* HotkeyEdit._capturing (the field has the focus)
    current_sequence,     \* HotkeyEdit._current_sequence
    has_main_key,         \* HotkeyEdit._has_main_key
    prim_calls,           \* keyboard-library calls made by the last commit
    os_bindings           \* hotkey bindings of the tool active in the keyboard library

widgets == <<text_edit, speed_spin, random_checkbox, rand_min_spin, rand_max_spin,
             start_delay_spin>>

gui == <<state, current_countdown_ms, current_resume_ms, countdown_timer,
         resume_timer, typing_worker, status, btn_start_enabled>>

hotkey == <<hotkey_str, hotkey_handle, hotkey_occupied, capturing, current_sequence,
            has_main_key, prim_calls, os_bindings>>

scenario == <<windows, session_limit, main_keys, lib_faults>>

vars == <<gui, workers, queue, widgets, scenario, hotkey>>

\* what one call of pyautogui.getActiveWindowTitle() can do: "none" returns
\* None, "raise" raises, otherwise it returns that title.  The foreground
\* window changes independently of the program, so every call draws afresh.
FgStates == {"none", "raise", WindowTitle} \cup windows

\* --------------------------------------------------------- pure helpers
Min(a, b) == IF a < b THEN a ELSE b
Max(a, b) == IF a < b THEN b ELSE a

\* TypingWorker._is_fast_char
_is_fast_char(ch) == IF ch \in {10, 9} THEN FALSE ELSE ch >= 32

\* the percentage taken before the index is advanced
PercentBefore(i, length) == ((i - 1) * 100) \div length

\* int(i / length * 100).  In double precision this equals floor(100*i/length)
\* for every 0 <= i <= length < 50 (first difference: i = 29, length = 50).
Percent(i, length) == (i * 100) \div length

\* result of the try/except around pyautogui.getActiveWindowTitle() in
\* _begin_typing, _resume_typing and _on_focus_paused
QueryOrNone(f) == IF f \in {"none", "raise"} THEN None ELSE f

\* MainWindow.isActiveWindow(): the control surface is the foreground window;
\* the title query then reports WindowTitle, and no other window carries it
isActiveWindow(f) == f = WindowTitle

\* a constructor that keeps the jitter bounds as passed
NewWorkerNoSwap(text, base_delay_ms, use_random, rand_min_ms, rand_max_ms, title) ==
    [ text |-> text, base_delay_ms |-> base_delay_ms, use_random |-> use_random,
      rand_min_ms |-> rand_min_ms, rand_max_ms |-> rand_max_ms,
      stop_flag |-> FALSE, pause_flag |-> FALSE, target_window_title |-> title,
      i |-> 0, pc |-> "top", out |-> <<>>, sent |-> <<>>, delay_ms |-> -1,
      cfg_min |-> rand_min_ms, cfg_max |-> rand_max_ms, stopped_in |-> -1 ]

\* TypingWorker.__init__
NewWorker(text, base_delay_ms, use_random, rand_min_ms, rand_max_ms, title) ==
    [ text |-> text,
      base_delay_ms |-> base_delay_ms,
      use_random |-> use_random,
      rand_min_ms |-> IF rand_max_ms < rand_min_ms THEN rand_max_ms ELSE rand_min_ms,
      rand_max_ms |-> IF rand_max_ms < rand_min_ms THEN rand_min_ms ELSE rand_max_ms,
      stop_flag |-> FALSE,
      pause_flag |-> FALSE,
      target_window_title |-> title,
      i |-> 0,                 \* local variable i of run
      pc |-> "top",            \* position of the thread inside run
      out |-> <<>>,            \* units handed to the injection primitives: <<first, last>>
      sent |-> <<>>,           \* signals emitted so far: <<name, argument>>
      delay_ms |-> -1,         \* last delay_ms computed after a unit
      cfg_min |-> rand_min_ms, \* constructor arguments as passed
      cfg_max |-> rand_max_ms,
      stopped_in |-> -1 ]      \* MainWindow.state when stop() was called

\* ------------------------------------------------- TypingWorker.run
fast_mode(me) == me.base_delay_ms = 0 /\ ~me.use_random

\* a fast path that never closes a chunk by its length
RECURSIVE ChunkEndNoLimit(_, _, _)
ChunkEndNoLimit(text, i, n) ==
    IF i < Len(text) /\ _is_fast_char(text[i + 1])
    THEN ChunkEndNoLimit(text, i + 1, n + 1)
    ELSE i

\* the inner while of the fast path: index one past the last character of the
\* chunk that starts at 0-based position i (n characters collected so far)
RECURSIVE ChunkEnd(_, _, _)
ChunkEnd(text, i, n) ==
    IF i < Len(text) /\ n < max_chunk /\ _is_fast_char(text[i + 1])
    THEN ChunkEnd(text, i + 1, n + 1)
    ELSE i

\* TypingWorker._safe_write: keyboard.write, on failure pyautogui.write
_safe_write(kb_ok, pag_ok) ==
    IF kb_ok THEN "keyboard.write"
    ELSE IF pag_ok THEN "pyautogui.write" ELSE "raise"

\* TypingWorker._type_char: the primitive that delivers ch, "none" when the
\* character is dropped, "raise" when an exception leaves the method
_type_char(ch, kb_ok, pag_ok) ==
    IF ch = 10 \/ ch = 9
    THEN IF kb_ok THEN "keyboard.write"
         ELSE IF pag_ok THEN "pyautogui.press" ELSE "raise"
    ELSE IF ch < 32
    THEN IF ch = 8 \/ ch = 27
         THEN IF pag_ok THEN "pyautogui.press" ELSE "raise"
         ELSE "none"
    ELSE _safe_write(kb_ok, pag_ok)

\* TypingWorker._type_char for newline and tab: the primitives it invokes, in
\* order (try: keyboard.write(ch); except: pyautogui.press(key))
_type_char_calls(ch, kb_ok, pag_ok) ==
    IF ch = 10 \/ ch = 9
    THEN IF kb_ok THEN <<"keyboard.write">> ELSE <<"keyboard.write", "pyautogui.press">>
    ELSE <<>>

\* emitting a signal: remembered in the worker's history, posted to the GUI
Sent(me, sig, arg) == [me EXCEPT !.sent = Append(@, <<sig, arg>>)]
Post(w, sig, arg) == Append(queue, [w |-> w, sig |-> sig, arg |-> arg])

\* a first stop check that emits stopped and goes on: the return is missing
RunTopNoReturn(w) ==
    LET me == workers[w] IN
    /\ me.pc = "top"
    /\ IF me.i >= Len(me.text)
       THEN /\ workers' = [workers EXCEPT ![w] = [Sent(me, "finished", 0) EXCEPT !.pc = "done"]]
            /\ queue' = Post(w, "finished", 0)
       ELSE IF me.stop_flag
       THEN /\ workers' = [workers EXCEPT ![w] = [Sent(me, "stopped", 0) EXCEPT !.pc = "focus"]]
            /\ queue' = Post(w, "stopped", 0)
       ELSE /\ workers' = [workers EXCEPT ![w].pc = "focus"]
            /\ queue' = queue
    /\ UNCHANGED <<gui, widgets, scenario, hotkey>>

\* while i < length: / if self._stop_flag: stopped / else on to _check_focus;
\* also the length == 0 case and the finished.emit() after the loop
RunTop(w) ==
    LET me == workers[w] IN
    /\ me.pc = "top"
    /\ IF me.i >= Len(me.text)
       THEN /\ workers' = [workers EXCEPT ![w] = [Sent(me, "finished", 0) EXCEPT !.pc = "done"]]
            /\ queue' = Post(w, "finished", 0)
       ELSE IF me.stop_flag
       THEN /\ workers' = [workers EXCEPT ![w] = [Sent(me, "stopped", 0) EXCEPT !.pc = "done"]]
            /\ queue' = Post(w, "stopped", 0)
       ELSE /\ workers' = [workers EXCEPT ![w].pc = "focus"]
            /\ queue' = queue
    /\ UNCHANGED <<gui, widgets, scenario, hotkey>>

\* _check_focus up to the comparison of the titles: where the thread goes when
\* the foreground query behaves as f
AfterCheck(me, f) ==
    IF me.target_window_title = None \/ me.stop_flag \/ me.pause_flag THEN "wait"
    ELSE IF f = "raise" THEN "wait"
    ELSE IF f = "none" \/ f # me.target_window_title THEN "focus_lost"
    ELSE "wait"

RunCheckFocus(w) ==
    LET me == workers[w] IN
    /\ me.pc = "focus"
    /\ \E f \in FgStates :
          workers' = [workers EXCEPT ![w].pc = AfterCheck(me, f)]
    /\ UNCHANGED <<gui, widgets, scenario, hotkey, queue>>

\* a focus check that consumes the character it did not emit
RunFocusLostSkips(w) ==
    LET me == workers[w] IN
    /\ me.pc = "focus_lost"
    /\ workers' = [workers EXCEPT ![w] =
                     [Sent(me, "focus_paused", 0) EXCEPT
                         !.pause_flag = TRUE, !.pc = "wait",
                         !.i = IF @ + 1 < Len(me.text) THEN @ + 1 ELSE @]]
    /\ queue' = Post(w, "focus_paused", 0)
    /\ UNCHANGED <<gui, widgets, scenario, hotkey>>

\* a focus check that reports the loss without pausing the worker
RunFocusLostNoFlag(w) ==
    LET me == workers[w] IN
    /\ me.pc = "focus_lost"
    /\ workers' = [workers EXCEPT ![w] = [Sent(me, "focus_paused", 0) EXCEPT !.pc = "wait"]]
    /\ queue' = Post(w, "focus_paused", 0)
    /\ UNCHANGED <<gui, widgets, scenario, hotkey>>

\* _check_focus: self._pause_flag = True; self.focus_paused.emit()
RunFocusLost(w) ==
    LET me == workers[w] IN
    /\ me.pc = "focus_lost"
    /\ workers' = [workers EXCEPT ![w] =
                     [Sent(me, "focus_paused", 0) EXCEPT !.pause_flag = TRUE, !.pc = "wait"]]
    /\ queue' = Post(w, "focus_paused", 0)
    /\ UNCHANGED <<gui, widgets, scenario, hotkey>>

\* a pause loop without the stop check that follows it
RunWaitNoStopCheck(w) ==
    LET me == workers[w] IN
    /\ me.pc = "wait"
    /\ ~(me.pause_flag /\ ~me.stop_flag)
    /\ workers' = [workers EXCEPT ![w].pc = "emit"]
    /\ queue' = queue
    /\ UNCHANGED <<gui, widgets, scenario, hotkey>>

\* a pause loop that polls the pause flag only: while self._pause_flag: sleep
RunWaitPollsPauseOnly(w) ==
    LET me == workers[w] IN
    /\ me.pc = "wait"
    /\ ~me.pause_flag
    /\ IF me.stop_flag
       THEN /\ workers' = [workers EXCEPT ![w] = [Sent(me, "stopped", 0) EXCEPT !.pc = "done"]]
            /\ queue' = Post(w, "stopped", 0)
       ELSE /\ workers' = [workers EXCEPT ![w].pc = "emit"]
            /\ queue' = queue
    /\ UNCHANGED <<gui, widgets, scenario, hotkey>>

\* while self._pause_flag and not self._stop_flag: sleep; then the second
\* stop check.  The thread stays here while it is paused and not stopped.
RunWait(w) ==
    LET me == workers[w] IN
    /\ me.pc = "wait"
    /\ ~(me.pause_flag /\ ~me.stop_flag)
    /\ IF me.stop_flag
       THEN /\ workers' = [workers EXCEPT ![w] = [Sent(me, "stopped", 0) EXCEPT !.pc = "done"]]
            /\ queue' = Post(w, "stopped", 0)
       ELSE /\ workers' = [workers EXCEPT ![w].pc = "emit"]
            /\ queue' = queue
    /\ UNCHANGED <<gui, widgets, scenario, hotkey>>

\* a unit whose injection failure is swallowed: the run goes on
EmitUnitSwallows(me, kb_ok, pag_ok, jitter) ==
    LET length == Len(me.text)
        chunked == fast_mode(me) /\ _is_fast_char(me.text[me.i + 1])
        next_i == IF chunked THEN ChunkEnd(me.text, me.i, 0) ELSE me.i + 1
    IN [Sent(me, "progress_changed", Percent(next_i, length)) EXCEPT
           !.pc = "top",
           !.i = next_i,
           !.out = Append(@, <<me.i, next_i - 1>>),
           !.delay_ms = IF fast_mode(me) THEN @
                        ELSE me.base_delay_ms + (IF me.use_random THEN jitter ELSE 0)]

\* one unit: the chunk or the character, progress_changed, the delay; an
\* exception from the injection primitives ends run with error.emit
EmitUnit(me, kb_ok, pag_ok, jitter) ==
    LET length == Len(me.text)
        chunked == fast_mode(me) /\ _is_fast_char(me.text[me.i + 1])
        next_i == IF chunked THEN ChunkEnd(me.text, me.i, 0) ELSE me.i + 1
        prim == IF chunked THEN _safe_write(kb_ok, pag_ok)
                ELSE _type_char(me.text[me.i + 1], kb_ok, pag_ok)
        percent == Percent(next_i, length)
    IN IF prim = "raise"
       THEN [Sent(me, "error", 0) EXCEPT !.pc = "done",
                                        !.i = IF chunked THEN next_i ELSE me.i]
       ELSE [Sent(me, "progress_changed", percent) EXCEPT
                 !.pc = "top",
                 !.i = next_i,
                 !.out = Append(@, <<me.i, next_i - 1>>),
                 !.delay_ms = IF fast_mode(me) THEN @
                              ELSE me.base_delay_ms + (IF me.use_random THEN jitter ELSE 0)]

RunEmit(w) ==
    LET me == workers[w] IN
    /\ me.pc = "emit"
    /\ \E kb_ok \in BOOLEAN, pag_ok \in BOOLEAN :
       \E jitter \in (IF me.use_random THEN me.rand_min_ms..me.rand_max_ms ELSE {0}) :
          LET nxt == EmitUnit(me, kb_ok, pag_ok, jitter)
              sig == nxt.sent[Len(nxt.sent)]
          IN /\ workers' = [workers EXCEPT ![w] = nxt]
             /\ queue' = Post(w, sig[1], sig[2])
    /\ UNCHANGED <<gui, widgets, scenario, hotkey>>

Run(w) == RunTop(w) \/ RunCheckFocus(w) \/ RunFocusLost(w) \/ RunWait(w) \/ RunEmit(w)

\* ------------------------------------------------------- MainWindow
\* The GUI-thread state as one record, so that a handler that calls other
\* methods in sequence is the composition of their effects.
Ctl == [ state |-> state,
         current_countdown_ms |-> current_countdown_ms,
         current_resume_ms |-> current_resume_ms,
         countdown_timer |-> countdown_timer,
         resume_timer |-> resume_timer,
         typing_worker |-> typing_worker,
         status |-> status,
         btn_start_enabled |-> btn_start_enabled,
         workers |-> workers ]

Becomes(c) ==
    /\ state' = c.state
    /\ current_countdown_ms' = c.current_countdown_ms
    /\ current_resume_ms' = c.current_resume_ms
    /\ countdown_timer' = c.countdown_timer
    /\ resume_timer' = c.resume_timer
    /\ typing_worker' = c.typing_worker
    /\ status' = c.status
    /\ btn_start_enabled' = c.btn_start_enabled
    /\ workers' = c.workers

\* _update_status: the message (its numbers left out) and the error colour
_update_status(c, text, is_error) == [c EXCEPT !.status = <<text, is_error>>]

_reset_timers(c) == [c EXCEPT !.countdown_timer = FALSE, !.resume_timer = FALSE]

_set_idle(c, text, is_error) ==
    _update_status([_reset_timers(c) EXCEPT !.state = STATE_IDLE,
                                            !.btn_start_enabled = TRUE],
                   text, is_error)

\* TypingWorker.stop / pause / resume / set_target_window on worker w
stop(c, w) == [c EXCEPT !.workers[w].stop_flag = TRUE, !.workers[w].stopped_in = c.state]
pause(c, w) == [c EXCEPT !.workers[w].pause_flag = TRUE]
resume(c, w) == [c EXCEPT !.workers[w].pause_flag = FALSE]
set_target_window(c, w, title) == [c EXCEPT !.workers[w].target_window_title = title]

\* a begin that does not look at isActiveWindow()
_begin_typing_NoSelfCheck(c, f) ==
    LET target_window_title == QueryOrNone(f) IN
    IF target_window_title = None THEN _set_idle(c, "start failed: no window", TRUE)
    ELSE [_update_status(c, "typing", FALSE) EXCEPT
             !.state = STATE_TYPING,
             !.resume_timer = FALSE,
             !.btn_start_enabled = FALSE,
             !.workers = Append(@, NewWorker(text_edit, speed_spin, random_checkbox,
                                             rand_min_spin, rand_max_spin,
                                             target_window_title)),
             !.typing_worker = Len(c.workers) + 1]

_begin_typing(c, f) ==
    LET target_window_title == QueryOrNone(f) IN
    IF target_window_title = None THEN _set_idle(c, "start failed: no window", TRUE)
    ELSE IF isActiveWindow(f) THEN _set_idle(c, "start failed: own window", TRUE)
    ELSE [_update_status(c, "typing", FALSE) EXCEPT
             !.state = STATE_TYPING,
             !.resume_timer = FALSE,
             !.btn_start_enabled = FALSE,
             !.workers = Append(@, NewWorker(text_edit, speed_spin, random_checkbox,
                                             rand_min_spin, rand_max_spin,
                                             target_window_title)),
             !.typing_worker = Len(c.workers) + 1]

_cancel_typing(c) ==
    IF c.state = STATE_IDLE THEN c
    ELSE IF c.state = STATE_COUNTDOWN THEN _set_idle(c, "cancelled", FALSE)
    ELSE IF c.state \in {STATE_TYPING, STATE_PAUSED}
    THEN _set_idle(IF c.typing_worker # 0 THEN stop(c, c.typing_worker) ELSE c,
                   "aborted", FALSE)
    ELSE c

\* a start that does not look at the text
_start_typing_NoTextCheck(c, skip_countdown, f) ==
    LET c1 == _update_status(c, "ready", FALSE) IN
    IF skip_countdown THEN _begin_typing(c1, f)
    ELSE IF start_delay_spin <= 0 THEN _begin_typing(c1, f)
    ELSE [_update_status(c1, "countdown", FALSE) EXCEPT
              !.state = STATE_COUNTDOWN,
              !.current_countdown_ms = start_delay_spin,
              !.countdown_timer = TRUE,
              !.btn_start_enabled = FALSE]

_start_typing(c, skip_countdown, f) ==
    IF text_edit = <<>> THEN _update_status(c, "no text", TRUE)
    ELSE LET c1 == _update_status(c, "ready", FALSE) IN
         IF skip_countdown THEN _begin_typing(c1, f)
         ELSE IF start_delay_spin <= 0 THEN _begin_typing(c1, f)
         ELSE [_update_status(c1, "countdown", FALSE) EXCEPT
                   !.state = STATE_COUNTDOWN,
                   !.current_countdown_ms = start_delay_spin,
                   !.countdown_timer = TRUE,
                   !.btn_start_enabled = FALSE]

\* a resume that clears the pause flag first and retargets afterwards
ResumeThenRetarget(c, current_win) ==
    LET w == c.typing_worker
        resumed == resume(c, w)
    IN <<resumed, set_target_window(resumed, w, current_win)>>

\* _resume_typing: self.typing_worker.set_target_window(current_win);
\* self.typing_worker.resume().  The two writes to the worker, in order: what
\* the worker thread can see after each of them.
RetargetAndResume(c, current_win) ==
    LET w == c.typing_worker
        retargeted == set_target_window(c, w, current_win)
    IN <<retargeted, resume(retargeted, w)>>

_resume_typing(c, from_hotkey, f) ==
    IF ~(c.typing_worker # 0 /\ c.state = STATE_PAUSED) THEN c
    ELSE LET current_win == QueryOrNone(f) IN
         IF current_win = None
         THEN [_update_status(c, "resume failed: no window", TRUE) EXCEPT
                   !.resume_timer = FALSE]
         ELSE IF current_win = WindowTitle
         THEN [_update_status(c, "resume failed: own window", TRUE) EXCEPT
                   !.resume_timer = FALSE]
         ELSE [_update_status(RetargetAndResume(c, current_win)[2],
                              IF from_hotkey THEN "typing (hotkey)" ELSE "typing", FALSE)
                  EXCEPT !.state = STATE_TYPING]

_on_start_clicked(c, f) ==
    IF c.state \in {STATE_TYPING, STATE_COUNTDOWN} THEN _cancel_typing(c)
    ELSE IF c.state = STATE_PAUSED THEN _start_typing(_cancel_typing(c), FALSE, f)
    ELSE _start_typing(c, FALSE, f)

_on_pause_clicked(c, f) ==
    IF c.state = STATE_TYPING /\ c.typing_worker # 0
    THEN [_update_status(pause(c, c.typing_worker), "paused", FALSE) EXCEPT
              !.resume_timer = FALSE, !.state = STATE_PAUSED]
    ELSE IF c.state = STATE_PAUSED /\ c.typing_worker # 0
    THEN IF c.resume_timer
         THEN [_update_status(c, "paused", FALSE) EXCEPT !.resume_timer = FALSE]
         ELSE IF start_delay_spin <= 0 THEN _resume_typing(c, FALSE, f)
         ELSE [_update_status(c, "resume countdown", FALSE) EXCEPT
                   !.current_resume_ms = start_delay_spin, !.resume_timer = TRUE]
    ELSE c

_on_stop_clicked(c) == _cancel_typing(c)

_on_resume_tick(c, f) ==
    LET c1 == [c EXCEPT !.current_resume_ms = @ - step] IN
    IF c1.current_resume_ms <= 0
    THEN _resume_typing([c1 EXCEPT !.resume_timer = FALSE], FALSE, f)
    ELSE _update_status(c1, "resume countdown", FALSE)

_on_countdown_tick(c, f) ==
    IF c.state # STATE_COUNTDOWN
    THEN [c EXCEPT !.countdown_timer = FALSE, !.btn_start_enabled = TRUE]
    ELSE LET c1 == [c EXCEPT !.current_countdown_ms = @ - step] IN
         IF c1.current_countdown_ms <= 0
         THEN _begin_typing([c1 EXCEPT !.countdown_timer = FALSE], f)
         ELSE _update_status(c1, "countdown", FALSE)

\* a hotkey start that honours the start delay
_start_typing_from_hotkey_WithCountdown(c, f) ==
    IF c.state = STATE_PAUSED /\ c.typing_worker # 0 THEN _resume_typing(c, TRUE, f)
    ELSE IF c.state \in {STATE_TYPING, STATE_COUNTDOWN} THEN _cancel_typing(c)
    ELSE _start_typing(c, FALSE, f)

_start_typing_immediately_from_hotkey(c, f) ==
    IF c.state = STATE_PAUSED /\ c.typing_worker # 0 THEN _resume_typing(c, TRUE, f)
    ELSE IF c.state \in {STATE_TYPING, STATE_COUNTDOWN} THEN _cancel_typing(c)
    ELSE _start_typing(c, TRUE, f)

_on_typing_progress(c) == _update_status(c, "progress", FALSE)
_on_typing_finished(c) == _set_idle(c, "finished", FALSE)
_on_typing_stopped(c) == _set_idle(c, "aborted", FALSE)
_on_typing_error(c) == _set_idle(c, "error", TRUE)

_on_focus_paused(c, f) ==
    IF c.state \notin {STATE_TYPING, STATE_PAUSED} THEN c
    ELSE LET current_win == QueryOrNone(f)
             c1 == [c EXCEPT !.resume_timer = FALSE, !.state = STATE_PAUSED]
         IN IF current_win = None THEN _update_status(c1, "paused: no window", TRUE)
            ELSE IF current_win = WindowTitle
            THEN _update_status(c1, "paused: own window", TRUE)
            ELSE _update_status(c1, "paused: focus changed", FALSE)

\* ---------------------------------------------------------- strings
\* A Python str is the sequence of its one-character strings.
UpperCase == <<"A", "B", "C", "D", "E", "F", "G", "H", "I", "J", "K", "L", "M",
               "N", "O", "P", "Q", "R", "S", "T", "U", "V", "W", "X", "Y", "Z">>
LowerCase == <<"a", "b", "c", "d", "e", "f", "g", "h", "i", "j", "k", "l", "m",
               "n", "o", "p", "q", "r", "s", "t", "u", "v", "w", "x", "y", "z">>
Digits == {"0", "1", "2", "3", "4", "5", "6", "7", "8", "9"}

lower_ch(ch) ==
    IF \E k \in 1..26 : UpperCase[k] = ch
    THEN LowerCase[CHOOSE k \in 1..26 : UpperCase[k] = ch] ELSE ch
upper_ch(ch) ==
    IF \E k \in 1..26 : LowerCase[k] = ch
    THEN UpperCase[CHOOSE k \in 1..26 : LowerCase[k] = ch] ELSE ch
lower(str) == [k \in 1..Len(str) |-> lower_ch(str[k])]
upper(str) == [k \in 1..Len(str) |-> upper_ch(str[k])]
isdigit(str) == Len(str) > 0 /\ \A k \in 1..Len(str) : str[k] \in Digits

RECURSIVE lstrip(_)
lstrip(str) == IF str # <<>> /\ str[1] = " " THEN lstrip(Tail(str)) ELSE str
RECURSIVE rstrip(_)
rstrip(str) ==
    IF str # <<>> /\ str[Len(str)] = " " THEN rstrip(SubSeq(str, 1, Len(str) - 1)) ELSE str
strip(str) == rstrip(lstrip(str))

\* str.split("+")
RECURSIVE split(_)
split(str) ==
    IF \E k \in 1..Len(str) : str[k] = "+"
    THEN LET k == CHOOSE j \in 1..Len(str) : str[j] = "+" /\ \A m \in 1..(j - 1) : str[m] # "+"
         IN <<SubSeq(str, 1, k - 1)>> \o split(SubSeq(str, k + 1, Len(str)))
    ELSE <<str>>

\* "+".join(parts)
RECURSIVE join(_)
join(parts) ==
    IF parts = <<>> THEN <<>>
    ELSE IF Len(parts) = 1 THEN parts[1]
    ELSE parts[1] \o <<"+">> \o join(Tail(parts))

\* [p.strip() for p in seq_str.split("+") if p.strip()]
RECURSIVE StrippedParts(_)
StrippedParts(raw) ==
    IF raw = <<>> THEN <<>>
    ELSE (IF strip(raw[1]) # <<>> THEN <<strip(raw[1])>> ELSE <<>>) \o StrippedParts(Tail(raw))

s_ctrl == <<"c", "t", "r", "l">>
s_control == <<"c", "o", "n", "t", "r", "o", "l">>
s_shift == <<"s", "h", "i", "f", "t">>
s_alt == <<"a", "l", "t">>
s_menu == <<"m", "e", "n", "u">>
s_win == <<"w", "i", "n">>
s_windows == <<"w", "i", "n", "d", "o", "w", "s">>
s_meta == <<"m", "e", "t", "a">>
s_super == <<"s", "u", "p", "e", "r">>

\* a canonical form that only lower-cases
CanonicalTokenLowerOnly(p) == lower(p)

\* one token of MainWindow._canonicalize_sequence
CanonicalToken(p) ==
    LET low == lower(p) IN
    IF low \in {s_ctrl, s_control} THEN s_ctrl
    ELSE IF low = s_shift THEN s_shift
    ELSE IF low \in {s_alt, s_menu} THEN s_alt
    ELSE IF low \in {s_win, s_windows, s_meta, s_super} THEN s_windows
    ELSE low

_canonicalize_sequence(seq_str) ==
    LET parts == StrippedParts(split(seq_str))
    IN join([k \in 1..Len(parts) |-> CanonicalToken(parts[k])])

\* ------------------------------------------------- hotkey registration
\* the binding as one record, as for Ctl
Hk == [ hotkey_str |-> hotkey_str, hotkey_handle |-> hotkey_handle,
        hotkey_occupied |-> hotkey_occupied, prim_calls |-> <<>>,
        os_bindings |-> os_bindings ]

_set_hotkey_display(h, occupied) == [h EXCEPT !.hotkey_occupied = occupied]

\* a registration that does not forget the handle it has unregistered
_register_hotkey_KeepsHandle(h, remove_ok, add_ok) ==
    LET h1 == IF h.hotkey_handle # NoHandle
              THEN [h EXCEPT !.prim_calls = Append(@, "remove_hotkey"),
                             !.os_bindings = IF remove_ok THEN @ - 1 ELSE @]
              ELSE h
        h2 == [h1 EXCEPT !.prim_calls = Append(@, "add_hotkey")]
    IN IF add_ok
       THEN _set_hotkey_display([h2 EXCEPT !.hotkey_handle = h.hotkey_str,
                                           !.os_bindings = @ + 1], FALSE)
       ELSE _set_hotkey_display(h2, TRUE)

\* remove_ok / add_ok: whether keyboard.remove_hotkey / keyboard.add_hotkey
\* return normally.  A remove_hotkey that raises has not removed the binding
\* (one that raises after removing it acts on the model as a successful one).
_register_hotkey(h, remove_ok, add_ok) ==
    LET h1 == IF h.hotkey_handle # NoHandle
              THEN [h EXCEPT !.prim_calls = Append(@, "remove_hotkey"),
                             !.os_bindings = IF remove_ok THEN @ - 1 ELSE @,
                             !.hotkey_handle = NoHandle]
              ELSE h
        h2 == [h1 EXCEPT !.prim_calls = Append(@, "add_hotkey")]
    IN IF add_ok
       THEN _set_hotkey_display([h2 EXCEPT !.hotkey_handle = h.hotkey_str,
                                           !.os_bindings = @ + 1], FALSE)
       ELSE _set_hotkey_display(h2, TRUE)

\* a commit that accepts any first token
_on_hotkey_committed_AnyFirst(h, seq_in, main_key_seen, remove_ok, add_ok) ==
    LET seq_str == strip(seq_in)
        parts == StrippedParts(split(seq_str))
        rejected == _set_hotkey_display(h, h.hotkey_occupied)
    IN IF seq_str = <<>> \/ ~main_key_seen THEN rejected
       ELSE IF Len(parts) < 2 THEN rejected
       ELSE LET new_hotkey == _canonicalize_sequence(seq_str) IN
            IF new_hotkey = h.hotkey_str THEN rejected
            ELSE _register_hotkey([h EXCEPT !.hotkey_str = new_hotkey], remove_ok, add_ok)

_on_hotkey_committed(h, seq_in, main_key_seen, remove_ok, add_ok) ==
    LET seq_str == strip(seq_in)
        parts == StrippedParts(split(seq_str))
        rejected == _set_hotkey_display(h, h.hotkey_occupied)
    IN IF seq_str = <<>> \/ ~main_key_seen THEN rejected
       ELSE IF Len(parts) < 2 THEN rejected
       ELSE IF lower(parts[1]) \notin {s_ctrl, s_control, s_shift, s_alt} THEN rejected
       ELSE LET main_display == parts[Len(parts)]
                main_low == lower(main_display)
                allowed == \/ Len(main_display) = 1
                           \/ /\ main_low[1] = "f"
                              /\ isdigit(SubSeq(main_low, 2, Len(main_low)))
            IN IF ~allowed THEN rejected
               ELSE LET new_hotkey == _canonicalize_sequence(seq_str) IN
                    IF new_hotkey = h.hotkey_str THEN rejected
                    ELSE _register_hotkey([h EXCEPT !.hotkey_str = new_hotkey],
                                          remove_ok, add_ok)

\* ------------------------------------------------------- HotkeyEdit
\* keys of the bounded keyboard: the four modifier keys and some main keys
ModifierKeys == {"Key_Control", "Key_Shift", "Key_Alt", "Key_Meta"}
MainKeys == {"Key_K", "Key_F1", "Key_F25", "Key_Plus", "Key_unknown"}
\* QKeySequence(key).toString()
KeyText(key) ==
    CASE key = "Key_K" -> <<"K">>
      [] key = "Key_F1" -> <<"F", "1">>
      [] key = "Key_F25" -> <<"F", "2", "5">>
      [] key = "Key_Plus" -> <<"+">>
      [] key = "Key_unknown" -> <<>>
\* event.modifiers(): any subset of the four modifiers
ModifierSets == SUBSET {"Ctrl", "Shift", "Alt", "Win"}
ModifierList(mods) ==
    (IF "Ctrl" \in mods THEN << <<"C", "t", "r", "l">> >> ELSE <<>>)
    \o (IF "Shift" \in mods THEN << <<"S", "h", "i", "f", "t">> >> ELSE <<>>)
    \o (IF "Alt" \in mods THEN << <<"A", "l", "t">> >> ELSE <<>>)
    \o (IF "Win" \in mods THEN << <<"W", "i", "n">> >> ELSE <<>>)

\* keyPressEvent for a key other than Return, Enter and Escape: the new
\* <<_current_sequence, _has_main_key>>
keyPressEvent(mods, key, main_key_seen) ==
    LET is_main == key \notin ModifierKeys
        text == IF is_main THEN KeyText(key) ELSE <<>>
        main_key == IF Len(text) = 1 THEN upper(text) ELSE text
        parts == ModifierList(mods) \o (IF main_key # <<>> THEN <<main_key>> ELSE <<>>)
    IN <<join(parts), main_key_seen \/ is_main>>

\* ------------------------------------------------------------ actions
\* A handler runs to completion on the GUI thread; it is enabled only while
\* it leaves at most session_limit workers constructed.
Handler(c) ==
    /\ Len(c.workers) <= session_limit
    /\ Becomes(c)
    /\ UNCHANGED <<queue, widgets, scenario, hotkey>>

\* btn_start.clicked (a disabled button emits no click)
StartClicked ==
    /\ btn_start_enabled
    /\ \E f \in FgStates : Handler(_on_start_clicked(Ctl, f))

\* btn_pause.clicked
PauseClicked == \E f \in FgStates : Handler(_on_pause_clicked(Ctl, f))

\* btn_stop.clicked
StopClicked == Handler(_on_stop_clicked(Ctl))

\* resume_timer.timeout
ResumeTick ==
    /\ resume_timer
    /\ \E f \in FgStates : Handler(_on_resume_tick(Ctl, f))

\* countdown_timer.timeout
CountdownTick ==
    /\ countdown_timer
    /\ \E f \in FgStates : Handler(_on_countdown_tick(Ctl, f))

\* _on_hotkey_trigger_gui, posted by _on_hotkey_trigger when the registered
\* combination is pressed
_on_hotkey_trigger_gui(c, f) ==
    IF capturing THEN c ELSE _start_typing_immediately_from_hotkey(c, f)

HotkeyTrigger ==
    /\ hotkey_handle # NoHandle
    /\ \E f \in FgStates : Handler(_on_hotkey_trigger_gui(Ctl, f))

\* delivery of the oldest queued worker signal to its slot
Slot(c, sig, f) ==
    CASE sig = "progress_changed" -> _on_typing_progress(c)
      [] sig = "finished" -> _on_typing_finished(c)
      [] sig = "stopped" -> _on_typing_stopped(c)
      [] sig = "error" -> _on_typing_error(c)
      [] sig = "focus_paused" -> _on_focus_paused(c, f)

Deliver ==
    /\ queue # <<>>
    /\ \E f \in FgStates : Becomes(Slot(Ctl, Head(queue).sig, f))
    /\ queue' = Tail(queue)
    /\ UNCHANGED <<widgets, scenario, hotkey>>

\* a step of one worker thread
Thread == \E w \in 1..Len(workers) : Run(w)

\* HotkeyEdit.focusInEvent
HotkeyFocusIn ==
    /\ ~capturing
    /\ capturing' = TRUE
    /\ current_sequence' = <<>>
    /\ has_main_key' = FALSE
    /\ UNCHANGED <<gui, workers, queue, widgets, scenario, hotkey_str,
                   hotkey_handle, hotkey_occupied, prim_calls, os_bindings>>

\* HotkeyEdit.keyPressEvent, a key other than Return, Enter and Escape
HotkeyKeyPress ==
    /\ capturing
    /\ \E mods \in ModifierSets, key \in ModifierKeys \cup main_keys :
          LET r == keyPressEvent(mods, key, has_main_key)
          IN current_sequence' = r[1] /\ has_main_key' = r[2]
    /\ UNCHANGED <<gui, workers, queue, widgets, scenario, hotkey_str,
                   hotkey_handle, hotkey_occupied, capturing, prim_calls, os_bindings>>

\* how a keyboard-library call can end: TRUE returns, FALSE raises
Outcomes(call) == IF call \in lib_faults THEN BOOLEAN ELSE {TRUE}

Committed(seq_str, main_key_seen) ==
    \E remove_ok \in Outcomes("remove_hotkey"), add_ok \in Outcomes("add_hotkey") :
       LET h == _on_hotkey_committed(Hk, seq_str, main_key_seen, remove_ok, add_ok)
       IN /\ hotkey_str' = h.hotkey_str
          /\ hotkey_handle' = h.hotkey_handle
          /\ hotkey_occupied' = h.hotkey_occupied
          /\ prim_calls' = h.prim_calls
          /\ os_bindings' = h.os_bindings
          /\ h.os_bindings <= MaxBindings

\* HotkeyEdit.focusOutEvent (Return, Enter or a click elsewhere):
\* sequenceCommitted -> _on_hotkey_committed
HotkeyFocusOut ==
    /\ capturing
    /\ capturing' = FALSE
    /\ Committed(current_sequence, has_main_key)
    /\ UNCHANGED <<gui, workers, queue, widgets, scenario, current_sequence,
                   has_main_key>>

\* HotkeyEdit.keyPressEvent, Escape: the capture is dropped, then clearFocus
HotkeyEscape ==
    /\ capturing
    /\ capturing' = FALSE
    /\ current_sequence' = <<>>
    /\ has_main_key' = FALSE
    /\ Committed(<<>>, FALSE)
    /\ UNCHANGED <<gui, workers, queue, widgets, scenario>>

\* ------------------------------------------------------ initial states
\* MainWindow.__init__: Idle, no worker, the default combination handed to
\* _register_hotkey, _set_idle
Constructed(add_ok) ==
    /\ state = STATE_IDLE
    /\ current_countdown_ms = 0
    /\ current_resume_ms = 0
    /\ countdown_timer = FALSE
    /\ resume_timer = FALSE
    /\ typing_worker = 0
    /\ status = <<"waiting", FALSE>>
    /\ btn_start_enabled = TRUE
    /\ workers = <<>>
    /\ queue = <<>>
    /\ LET h == _register_hotkey(
                   [hotkey_str |-> s_ctrl \o <<"+">> \o s_shift \o <<"+", "t">>,
                    hotkey_handle |-> NoHandle,
                    hotkey_occupied |-> FALSE,
                    prim_calls |-> <<>>,
                    os_bindings |-> 0], TRUE, add_ok)
       IN /\ hotkey_str = h.hotkey_str
          /\ hotkey_handle = h.hotkey_handle
          /\ hotkey_occupied = h.hotkey_occupied
          /\ prim_calls = h.prim_calls
          /\ os_bindings = h.os_bindings
    /\ capturing = FALSE
    /\ current_sequence = <<>>
    /\ has_main_key = FALSE

\* what the user has put into the widgets (text, speed, jitter check box and
\* bounds, start delay): every text without jitter and without start delay,
\* at speed 0 and at speed 1; one text with every pair of jitter bounds; one
\* text with every positive start delay
SampleText == <<97, 10>>
Fillings ==
    [text : Texts, speed : {0, 1}, random : {FALSE}, rand_min : {0}, rand_max : {0},
     start_delay : {0}]
    \cup [text : {SampleText}, speed : {0}, random : {TRUE}, rand_min : JitterValues,
          rand_max : JitterValues, start_delay : {0}]
    \cup [text : {SampleText}, speed : {0}, random : {FALSE}, rand_min : {0},
          rand_max : {0}, start_delay : DelayValues \ {0}]

Filled(fillings) ==
    \E p \in fillings :
       /\ text_edit = p.text
       /\ speed_spin = p.speed
       /\ random_checkbox = p.random
       /\ rand_min_spin = p.rand_min
       /\ rand_max_spin = p.rand_max
       /\ start_delay_spin = p.start_delay

\* one session: the window after construction with the hotkey registered and
\* the widgets filled in
Init ==
    /\ Constructed(TRUE)
    /\ Filled(Fillings)
    /\ windows = OtherTitles
    /\ session_limit = 1
    /\ main_keys = MainKeys
    /\ lib_faults = {}

Next ==
    \/ StartClicked
    \/ PauseClicked
    \/ StopClicked
    \/ ResumeTick
    \/ CountdownTick
    \/ HotkeyTrigger
    \/ Deliver
    \/ Thread

Spec == Init /\ [][Next]_vars

\* the same session with every started worker thread scheduled fairly: a
\* QThread that can take a step of run is eventually given the processor
ThreadFairness == \A w \in 1..MaxWorkers : WF_vars(w \in 1..Len(workers) /\ Run(w))
SpecFair == Init /\ [][Next]_vars /\ ThreadFairness

\* several sessions in a row of a one-character text without delays, the user
\* starting and stopping only
InitSessions ==
    /\ Constructed(TRUE)
    /\ Filled([text : {<<97>>}, speed : {0}, random : {FALSE}, rand_min : {0},
               rand_max : {0}, start_delay : {0}])
    /\ windows = {"A"}
    /\ session_limit = MaxWorkers
    /\ main_keys = MainKeys
    /\ lib_faults = {}

NextSessions ==
    \/ StartClicked
    \/ StopClicked
    \/ HotkeyTrigger
    \/ Deliver
    \/ Thread

SpecSessions == InitSessions /\ [][NextSessions]_vars

\* the hotkey field: the window after construction, the text box still empty;
\* registrations can fail, unregistrations succeed
InitHotkey ==
    /\ \E add_ok \in BOOLEAN : Constructed(add_ok)
    /\ Filled([text : {<<>>}, speed : {0}, random : {FALSE}, rand_min : {0},
               rand_max : {0}, start_delay : {0}])
    /\ windows = {"A"}
    /\ session_limit = 1
    /\ main_keys = MainKeys
    /\ lib_faults = {"add_hotkey"}

NextHotkey ==
    \/ HotkeyFocusIn
    \/ HotkeyKeyPress
    \/ HotkeyFocusOut
    \/ HotkeyEscape
    \/ HotkeyTrigger

SpecHotkey == InitHotkey /\ [][NextHotkey]_vars

\* the hotkey field on a keyboard with one main key, every keyboard-library
\* call able to raise
InitBindings ==
    /\ \E add_ok \in BOOLEAN : Constructed(add_ok)
    /\ Filled([text : {<<>>}, speed : {0}, random : {FALSE}, rand_min : {0},
               rand_max : {0}, start_delay : {0}])
    /\ windows = {"A"}
    /\ session_limit = 1
    /\ main_keys = {"Key_K"}
    /\ lib_faults = {"remove_hotkey", "add_hotkey"}

SpecBindings == InitBindings /\ [][NextHotkey]_vars

\* one session over texts that exercise the unit partition: "ab\nc", a text
\* with a tab and a dropped control character, and plain runs around max_chunk;
\* at speed 0 (fast path), at speed 1 and with jitter; the user only starts
AbNewlineC == <<97, 98, 10, 99>>
UnitTexts ==
    {AbNewlineC, <<9, 1, 97>>}
    \cup {[k \in 1..(max_chunk + e) |-> 97] : e \in 0..MaxExtra}
UnitFillings ==
    [text : UnitTexts, speed : {0, 1}, random : {FALSE}, rand_min : {0}, rand_max : {0},
     start_delay : {0}]
    \cup [text : {AbNewlineC}, speed : {0}, random : {TRUE}, rand_min : {0},
          rand_max : {0}, start_delay : {0}]

InitUnits ==
    /\ Constructed(TRUE)
    /\ Filled(UnitFillings)
    /\ windows = {"A"}
    /\ session_limit = 1
    /\ main_keys = MainKeys
    /\ lib_faults = {}

NextUnits ==
    \/ StartClicked
    \/ Deliver
    \/ Thread

SpecUnits == InitUnits /\ [][NextUnits]_vars

\* ------------------------------------------------------------- claims
Workers == 1..Len(workers)
Signals(me) == [k \in 1..Len(me.sent) |-> me.sent[k][1]]
Count(seq, x) == Cardinality({k \in 1..Len(seq) : seq[k] = x})
LastSignal(me) == IF me.sent = <<>> THEN None ELSE me.sent[Len(me.sent)][1]

\* the units emitted so far are the positions 0 .. i-1, in order, each once
Contiguous(me) ==
    /\ \A k \in 1..Len(me.out) :
          /\ me.out[k][1] = (IF k = 1 THEN 0 ELSE me.out[k - 1][2] + 1)
          /\ me.out[k][1] <= me.out[k][2]
    /\ me.out # <<>> => me.out[Len(me.out)][2] < Len(me.text)

\* C1: whatever pauses, focus losses and resumes happen during a run, the
\* worker emits the positions of the text in order, none skipped and none
\* twice; a run that ends without a stop and without an injection failure has
\* emitted all of 0 .. len-1 and ends with exactly one finished signal.
C1_PauseResumeKeepsText ==
    \A w \in Workers :
       LET me == workers[w] IN
       /\ Contiguous(me)
       /\ Count(Signals(me), "finished") <= 1
       /\ (me.pc # "done") => Count(Signals(me), "finished") = 0
       /\ (me.pc = "done" /\ LastSignal(me) \notin {"stopped", "error"}) =>
             /\ LastSignal(me) = "finished"
             /\ Count(Signals(me), "finished") = 1
             /\ IF me.text = <<>> THEN me.out = <<>>
                ELSE me.out # <<>> /\ me.out[Len(me.out)][2] = Len(me.text) - 1

\* a run of two units that lost the focus between them, was resumed and finished
C1_Witness ==
    \E w \in Workers :
       LET me == workers[w] IN
       /\ me.pc = "done"
       /\ Signals(me) = <<"progress_changed", "focus_paused", "progress_changed", "finished">>
       /\ me.out = <<<<0, 0>>, <<1, 1>>>>

\* C2: once a cancel was accepted in state Typing (stop() called on the
\* session's worker), no finished signal is emitted by or delivered for that
\* worker.
C2_CancelNeverFinished ==
    [][\A w \in Workers :
          (workers[w].stop_flag /\ workers[w].stopped_in = STATE_TYPING) =>
             /\ ~(/\ Len(workers'[w].sent) > Len(workers[w].sent)
                  /\ LastSignal(workers'[w]) = "finished")
             /\ ~(/\ queue # <<>>
                  /\ Head(queue).w = w
                  /\ Head(queue).sig = "finished"
                  /\ queue' = Tail(queue))]_vars

\* C3: at most one worker that has not been told to stop is running.
C3_OneActiveWorker ==
    Cardinality({w \in Workers : workers[w].pc # "done" /\ ~workers[w].stop_flag}) <= 1

\* foreground states a start or a resume must refuse: no foreground window
\* (none reported, or the query fails) and the control surface itself
Refused == {f \in FgStates : f \in {"none", "raise", WindowTitle}}

\* C4: a resume attempt (pause button with zero delay, resume countdown
\* reaching zero, hotkey) that finds no foreground window or the control
\* surface in front leaves the state Paused, the worker's pause flag set and
\* its target unchanged, stops the resume timer and reports an error.
C4_RefusedResume ==
    (state = STATE_PAUSED /\ typing_worker # 0) =>
       \A f \in Refused :
          LET attempts ==
                 (IF ~resume_timer /\ start_delay_spin <= 0
                  THEN {_on_pause_clicked(Ctl, f)} ELSE {})
                 \cup (IF resume_timer /\ current_resume_ms <= step
                       THEN {_on_resume_tick(Ctl, f)} ELSE {})
                 \cup (IF ~capturing THEN {_on_hotkey_trigger_gui(Ctl, f)} ELSE {})
          IN \A c \in attempts :
                /\ c.state = STATE_PAUSED
                /\ c.workers[typing_worker].pause_flag
                /\ c.workers[typing_worker].target_window_title
                      = workers[typing_worker].target_window_title
                /\ ~c.resume_timer
                /\ c.status[2]

\* C5: when emission is about to begin (start with zero delay, hotkey start,
\* start countdown reaching zero) and there is no foreground window or the
\* control surface is in front, no worker is created, the state is Idle, an
\* error is reported and both timers are stopped.
C5_RefusedBegin ==
    \A f \in Refused :
       LET begins ==
              (IF /\ btn_start_enabled
                  /\ state \in {STATE_IDLE, STATE_PAUSED}
                  /\ text_edit # <<>>
                  /\ start_delay_spin <= 0
               THEN {_on_start_clicked(Ctl, f)} ELSE {})
              \cup (IF ~capturing /\ state = STATE_IDLE /\ text_edit # <<>>
                    THEN {_on_hotkey_trigger_gui(Ctl, f)} ELSE {})
              \cup (IF /\ countdown_timer
                       /\ state = STATE_COUNTDOWN
                       /\ current_countdown_ms <= step
                    THEN {_on_countdown_tick(Ctl, f)} ELSE {})
       IN \A c \in begins :
             /\ Len(c.workers) = Len(workers)
             /\ c.state = STATE_IDLE
             /\ c.status[2]
             /\ ~c.countdown_timer
             /\ ~c.resume_timer

\* a begin was refused because the control surface was in front
C5_Witness ==
    /\ status = <<"start failed: own window", TRUE>>
    /\ state = STATE_IDLE
    /\ workers = <<>>
    /\ ~countdown_timer
    /\ ~resume_timer

\* the progress values a worker has emitted, in order
ProgressValues(me) ==
    LET p == SelectSeq(me.sent, LAMBDA s : s[1] = "progress_changed")
    IN [k \in 1..Len(p) |-> p[k][2]]

\* C6: within one session the progress values are non-decreasing integers in
\* 0..100, one after every emitted unit, each floor(100 * i / length) for the
\* number i of characters processed, and the last one before finished is 100.
C6_Progress ==
    \A w \in Workers :
       LET me == workers[w]
           p == ProgressValues(me)
       IN /\ Len(p) = Len(me.out)
          /\ \A k \in 1..Len(p) :
                /\ p[k] \in 0..100
                /\ k > 1 => p[k - 1] <= p[k]
                /\ p[k] * Len(me.text) <= 100 * (me.out[k][2] + 1)
                /\ 100 * (me.out[k][2] + 1) < (p[k] + 1) * Len(me.text)
          /\ (LastSignal(me) = "finished" /\ me.text # <<>>) =>
                p # <<>> /\ p[Len(p)] = 100

\* a finished run of two units with the values 50 and 100
C6_Witness ==
    \E w \in Workers :
       /\ LastSignal(workers[w]) = "finished"
       /\ ProgressValues(workers[w]) = <<50, 100>>

\* C7: a hotkey trigger outside a capture: in Paused it attempts the resume
\* at once, accepted exactly when a button resume would be, without starting
\* a resume countdown; in Typing or Countdown it cancels the session and the
\* state becomes Idle; in Idle with a non-empty text and a valid foreground
\* window it goes straight to Typing, whatever the start delay is.
C7_HotkeyTrigger ==
    ~capturing =>
       \A f \in FgStates :
          LET c == _on_hotkey_trigger_gui(Ctl, f) IN
          /\ (state = STATE_PAUSED /\ typing_worker # 0) =>
                /\ c.current_resume_ms = current_resume_ms
                /\ c.resume_timer => resume_timer
                /\ (c.state = STATE_TYPING)
                      <=> (_resume_typing(Ctl, FALSE, f).state = STATE_TYPING)
                /\ IF f \in Refused
                   THEN c.state = STATE_PAUSED /\ c.workers = workers /\ c.status[2]
                   ELSE /\ c.state = STATE_TYPING
                        /\ ~c.workers[typing_worker].pause_flag
                        /\ c.workers[typing_worker].target_window_title = f
          /\ (state \in {STATE_TYPING, STATE_COUNTDOWN}) =>
                /\ c.state = STATE_IDLE
                /\ ~c.countdown_timer
                /\ ~c.resume_timer
                /\ Len(c.workers) = Len(workers)
                /\ (state = STATE_TYPING /\ typing_worker # 0) =>
                      c.workers[typing_worker].stop_flag
          /\ (state = STATE_IDLE /\ text_edit # <<>> /\ f \notin Refused) =>
                /\ c.state = STATE_TYPING
                /\ ~c.countdown_timer
                /\ c.current_countdown_ms = current_countdown_ms
                /\ Len(c.workers) = Len(workers) + 1
                /\ c.typing_worker = Len(workers) + 1

\* with a start delay configured, a paused session was resumed by the hotkey
C7_Witness ==
    /\ start_delay_spin > 0
    /\ status = <<"typing (hotkey)", FALSE>>
    /\ state = STATE_TYPING
    /\ ~resume_timer

\* C10: a worker built with minimum jitter above maximum jitter works with the
\* two swapped; from construction onwards minimum <= maximum are the smaller
\* and the larger of the configured values, and every jitter added to the
\* base delay lies between them.
C10_JitterBounds ==
    \A w \in Workers :
       LET me == workers[w] IN
       /\ me.rand_min_ms <= me.rand_max_ms
       /\ me.rand_min_ms = Min(me.cfg_min, me.cfg_max)
       /\ me.rand_max_ms = Max(me.cfg_min, me.cfg_max)
       /\ (me.use_random /\ me.delay_ms # -1) =>
             /\ me.delay_ms - me.base_delay_ms >= me.rand_min_ms
             /\ me.delay_ms - me.base_delay_ms <= me.rand_max_ms

\* a worker configured with minimum 1 and maximum 0 has emitted a unit
C10_Witness ==
    \E w \in Workers :
       /\ workers[w].cfg_min > workers[w].cfg_max
       /\ workers[w].use_random
       /\ workers[w].out # <<>>
       /\ workers[w].delay_ms # -1

\* the tokens of a captured sequence: its "+"-separated non-blank pieces
Tokens(seq_str) == StrippedParts(split(strip(seq_str)))

\* what a commit can hand to _on_hotkey_committed in the current state:
\* the captured sequence (focus lost, Return, Enter) or nothing (Escape)
Commits == {<<current_sequence, has_main_key>>, <<<<>>, FALSE>>}

\* C8: a committed sequence that is empty, has no main key, has fewer than two
\* tokens, or whose first token is not Ctrl, Shift or Alt leaves the binding
\* string, the registration handle and the occupied state as they were and
\* makes no register or unregister call.
C8_RejectedCommit ==
    capturing =>
       \A in \in Commits, remove_ok \in BOOLEAN, add_ok \in BOOLEAN :
          LET tokens == Tokens(in[1])
              h == _on_hotkey_committed(Hk, in[1], in[2], remove_ok, add_ok)
          IN (\/ in[1] = <<>>
              \/ ~in[2]
              \/ Len(tokens) < 2
              \/ lower(tokens[1]) \notin {s_ctrl, s_shift, s_alt}) =>
                /\ h.hotkey_str = hotkey_str
                /\ h.hotkey_handle = hotkey_handle
                /\ h.hotkey_occupied = hotkey_occupied
                /\ h.prim_calls = <<>>

\* Win+K was committed: the default binding is still registered, no call made
C8_Witness ==
    /\ ~capturing
    /\ has_main_key
    /\ current_sequence = <<"W", "i", "n", "+", "K">>
    /\ prim_calls = <<>>
    /\ hotkey_str = <<"c", "t", "r", "l", "+", "s", "h", "i", "f", "t", "+", "t">>
    /\ hotkey_handle = hotkey_str

\* the canonical name of one token
CanonicalName(token) ==
    LET low == lower(token) IN
    CASE low = s_control -> s_ctrl
      [] low \in {s_win, s_meta, s_super} -> s_windows
      [] low = s_menu -> s_alt
      [] OTHER -> low

\* C9: a committed sequence with a main key, at least two tokens, first token
\* Ctrl, Shift or Alt and a one-character last token is accepted: the binding
\* string becomes its canonical lower-case form (Control -> ctrl, Win, Meta,
\* Super -> windows, Menu -> alt; Ctrl+K -> ctrl+k) and the hotkey is
\* registered again, after unregistering a held handle; when the canonical
\* form equals the current binding no register or unregister call is made.
C9_AcceptedCommit ==
    /\ _canonicalize_sequence(<<"C", "t", "r", "l", "+", "K">>)
          = <<"c", "t", "r", "l", "+", "k">>
    /\ _canonicalize_sequence(<<"C", "o", "n", "t", "r", "o", "l", "+", "W", "i", "n", "+",
                                "M", "e", "t", "a", "+", "S", "u", "p", "e", "r", "+",
                                "M", "e", "n", "u", "+", "K">>)
          = s_ctrl \o <<"+">> \o s_windows \o <<"+">> \o s_windows \o <<"+">>
               \o s_windows \o <<"+">> \o s_alt \o <<"+", "k">>
    /\ capturing =>
          \A remove_ok \in BOOLEAN, add_ok \in BOOLEAN :
             LET tokens == Tokens(current_sequence)
                 canonical == join([k \in 1..Len(tokens) |-> CanonicalName(tokens[k])])
                 h == _on_hotkey_committed(Hk, current_sequence, has_main_key,
                                           remove_ok, add_ok)
             IN (/\ has_main_key
                 /\ Len(tokens) >= 2
                 /\ lower(tokens[1]) \in {s_ctrl, s_shift, s_alt}
                 /\ Len(tokens[Len(tokens)]) = 1) =>
                   /\ h.hotkey_str = canonical
                   /\ IF canonical = hotkey_str
                      THEN /\ h.prim_calls = <<>>
                           /\ h.hotkey_handle = hotkey_handle
                      ELSE /\ h.prim_calls
                                 = (IF hotkey_handle # NoHandle THEN <<"remove_hotkey">> ELSE <<>>)
                                      \o <<"add_hotkey">>
                           /\ add_ok => h.hotkey_handle = canonical /\ ~h.hotkey_occupied
                           /\ ~add_ok => h.hotkey_handle = NoHandle /\ h.hotkey_occupied

\* Ctrl+K was committed over a registered binding: unregistered, registered
\* again as ctrl+k
C9_Witness ==
    /\ ~capturing
    /\ current_sequence = <<"C", "t", "r", "l", "+", "K">>
    /\ hotkey_str = <<"c", "t", "r", "l", "+", "k">>
    /\ hotkey_handle = hotkey_str
    /\ prim_calls = <<"remove_hotkey", "add_hotkey">>

\* a plain character: code point >= 32 and neither newline nor tab
Plain(ch) == ch >= 32 /\ ch # 10 /\ ch # 9

\* C11: with base delay 0 and jitter off, every unit is either one non-plain
\* character or a batch of at most 40 plain characters that ends only at the
\* end of its run or at 40 characters, and nothing is slept between units;
\* "ab\nc" is emitted as "ab", newline, "c" with progress 50, 75, 100.  With a
\* base delay or with jitter every unit is one character.
C11_Units ==
    \A w \in Workers :
       LET me == workers[w]
           fast == me.base_delay_ms = 0 /\ ~me.use_random
           length == Len(me.text)
       IN /\ fast =>
                /\ me.delay_ms = -1
                /\ \A k \in 1..Len(me.out) :
                      LET a == me.out[k][1]
                          b == me.out[k][2]
                      IN IF Plain(me.text[a + 1])
                         THEN /\ \A j \in a..b : Plain(me.text[j + 1])
                              /\ b - a + 1 <= 40
                              /\ \/ b + 1 = length
                                 \/ ~Plain(me.text[b + 2])
                                 \/ b - a + 1 = 40
                         ELSE a = b
          /\ ~fast => \A k \in 1..Len(me.out) : me.out[k][1] = me.out[k][2]
          /\ (fast /\ me.text = AbNewlineC /\ LastSignal(me) = "finished") =>
                /\ me.out = <<<<0, 1>>, <<2, 2>>, <<3, 3>>>>
                /\ ProgressValues(me) = <<50, 75, 100>>

\* "ab\nc" was typed on the fast path in three units
C11_Witness ==
    \E w \in Workers :
       /\ workers[w].text = AbNewlineC
       /\ workers[w].base_delay_ms = 0
       /\ ~workers[w].use_random
       /\ LastSignal(workers[w]) = "finished"
       /\ Len(workers[w].out) = 3

\* C12: an injection that fails with no working fallback ends the run with
\* one error signal: no unit and no progress for it, nothing emitted after
\* it, neither finished nor stopped; the controller, processing the error
\* notification, becomes Idle with the error flag set and both timers stopped.
C12_InjectionError ==
    /\ \A w \in Workers :
          LET me == workers[w]
              sig == Signals(me)
          IN /\ Count(sig, "error") <= 1
             /\ Count(sig, "error") = 1 =>
                   /\ LastSignal(me) = "error"
                   /\ me.pc = "done"
                   /\ Count(sig, "finished") = 0
                   /\ Count(sig, "stopped") = 0
             /\ me.pc = "emit" =>
                   \A jitter \in 0..MaxJitter :
                      LET nxt == EmitUnit(me, FALSE, FALSE, jitter)
                      IN /\ nxt.pc = "done"
                         /\ Len(nxt.sent) = Len(me.sent) + 1
                         /\ LastSignal(nxt) = "error"
                         /\ nxt.out = me.out
    /\ (queue # <<>> /\ Head(queue).sig = "error") =>
          \A f \in FgStates :
             LET c == Slot(Ctl, "error", f)
             IN /\ c.state = STATE_IDLE
                /\ c.status[2]
                /\ ~c.countdown_timer
                /\ ~c.resume_timer

\* the second unit failed; the controller has processed the error
C12_Witness ==
    /\ state = STATE_IDLE
    /\ status = <<"error", TRUE>>
    /\ \E w \in Workers :
          /\ LastSignal(workers[w]) = "error"
          /\ Len(workers[w].out) = 1
          /\ workers[w].pc = "done"

\* C13: a start command (button or hotkey) in Idle with an empty text sets an
\* error status and changes nothing else: the state stays Idle, no countdown
\* is started, no worker is created.
C13_EmptyTextStart ==
    (state = STATE_IDLE /\ text_edit = <<>>) =>
       \A f \in FgStates :
          LET starts ==
                 (IF btn_start_enabled THEN {_on_start_clicked(Ctl, f)} ELSE {})
                 \cup (IF ~capturing THEN {_on_hotkey_trigger_gui(Ctl, f)} ELSE {})
          IN \A c \in starts :
                /\ c.status[2]
                /\ c.state = STATE_IDLE
                /\ c.countdown_timer = countdown_timer
                /\ c.workers = workers
                /\ c = [Ctl EXCEPT !.status = c.status]

\* a start was refused for want of text
C13_Witness ==
    /\ text_edit = <<>>
    /\ status = <<"no text", TRUE>>
    /\ state = STATE_IDLE
    /\ workers = <<>>
    /\ ~countdown_timer

\* C14: at session start, at the focus check before a unit and at resume, a
\* failing foreground query has the same effect as a query that reports no
\* window: the start aborts to an error-flagged Idle, the focus check pauses
\* the worker and emits focus lost, the resume is refused.
C14_QueryFailureIsNoTarget ==
    /\ (state = STATE_IDLE /\ text_edit # <<>> /\ ~capturing) =>
          LET c == _on_hotkey_trigger_gui(Ctl, "raise")
          IN /\ c = _on_hotkey_trigger_gui(Ctl, "none")
             /\ c.state = STATE_IDLE
             /\ c.status[2]
    /\ (state = STATE_PAUSED /\ typing_worker # 0 /\ ~capturing) =>
          LET c == _on_hotkey_trigger_gui(Ctl, "raise")
          IN /\ c = _on_hotkey_trigger_gui(Ctl, "none")
             /\ c.state = STATE_PAUSED
             /\ c.status[2]
    /\ \A w \in Workers :
          workers[w].pc = "focus" =>
             /\ AfterCheck(workers[w], "raise") = AfterCheck(workers[w], "none")
             /\ (~workers[w].stop_flag /\ ~workers[w].pause_flag) =>
                   AfterCheck(workers[w], "raise") = "focus_lost"

\* C15: a registration unregisters the held handle first and then tries to
\* register the new combination; when that fails the occupied flag is set and
\* no handle is held.  The occupied flag is true exactly when no handle is
\* held, after every registration attempt and after every rejected commit.
C15_OccupiedIffNoHandle ==
    /\ hotkey_occupied <=> (hotkey_handle = NoHandle)
    /\ capturing =>
          \A in \in Commits, remove_ok \in BOOLEAN, add_ok \in BOOLEAN :
             LET h == _on_hotkey_committed(Hk, in[1], in[2], remove_ok, add_ok)
             IN /\ h.hotkey_occupied <=> (h.hotkey_handle = NoHandle)
                /\ h.prim_calls # <<>> =>
                      /\ h.prim_calls =
                            (IF hotkey_handle # NoHandle THEN <<"remove_hotkey">> ELSE <<>>)
                               \o <<"add_hotkey">>
                      /\ ~add_ok => h.hotkey_occupied /\ h.hotkey_handle = NoHandle
                      /\ add_ok => ~h.hotkey_occupied /\ h.hotkey_handle = h.hotkey_str

\* a re-registration that failed after the old handle was unregistered, and
\* a new capture begun afterwards
C15_Witness ==
    /\ capturing
    /\ prim_calls = <<"remove_hotkey", "add_hotkey">>
    /\ hotkey_occupied
    /\ hotkey_handle = NoHandle

\* C16: whatever is committed and however the register and unregister calls
\* end, at most one hotkey binding of the tool is active.
C16_OneBinding == os_bindings <= 1

\* C17: a focus check that finds no foreground title or one different from
\* the target makes the worker set its pause flag and emit one focus lost
\* notification, without advancing the cursor and without emitting the unit;
\* the pause loop leaves the cursor alone, and the next unit the worker emits
\* starts at the cursor it was stopped at.
C17_FocusLossKeepsCursor ==
    [][\A w \in Workers :
          LET me == workers[w]
              nxt == workers'[w]
          IN /\ (/\ me.pc = "focus"
                 /\ me.target_window_title # None
                 /\ ~me.stop_flag
                 /\ ~me.pause_flag) =>
                   \A f \in FgStates \ {"raise"} :
                      (f = "none" \/ f # me.target_window_title) =>
                         AfterCheck(me, f) = "focus_lost"
             /\ (me.pc = "focus_lost" /\ nxt.pc # "focus_lost") =>
                   /\ nxt.pc = "wait"
                   /\ nxt.pause_flag
                   /\ nxt.sent = Append(me.sent, <<"focus_paused", 0>>)
                   /\ nxt.i = me.i
                   /\ nxt.out = me.out
             /\ (me.pc = "wait" /\ nxt.pc # "wait") =>
                   /\ nxt.i = me.i
                   /\ nxt.out = me.out
                   /\ Count(Signals(nxt), "focus_paused") = Count(Signals(me), "focus_paused")
             /\ nxt.out # me.out =>
                   /\ Len(nxt.out) = Len(me.out) + 1
                   /\ nxt.out[Len(nxt.out)][1] = me.i]_vars

\* the focus was lost before the second character, and the second character
\* was emitted after the resume
C17_Witness ==
    \E w \in Workers :
       /\ Signals(workers[w]) = <<"progress_changed", "focus_paused", "progress_changed">>
       /\ workers[w].out = <<<<0, 0>>, <<1, 1>>>>
       /\ workers[w].i = 2
       /\ workers[w].pc = "top"

\* C18: the countdown timer is active only in state Countdown and the resume
\* timer only in state Paused; a hotkey resume during a resume countdown
\* leaves no resume timer running in state Typing.
C18_TimersOwned ==
    /\ countdown_timer => state = STATE_COUNTDOWN
    /\ resume_timer => state = STATE_PAUSED

\* C19: the controller goes to Idle on a finished notification only from
\* state Typing, never from state Paused.
C19_FinishedOnlyFromTyping ==
    [][(/\ queue # <<>>
        /\ Head(queue).sig = "finished"
        /\ queue' = Tail(queue)
        /\ state # STATE_IDLE
        /\ state' = STATE_IDLE) => state = STATE_TYPING]_vars

\* C20: in state Countdown no notification of a worker changes the state or
\* stops the countdown timer; the state is left only for Typing or Idle, by a
\* handler of the GUI (the countdown reaching zero, a cancel).
C20_CountdownIgnoresWorkers ==
    [][state = STATE_COUNTDOWN =>
          /\ (queue # <<>> /\ queue' = Tail(queue)) =>
                /\ state' = STATE_COUNTDOWN
                /\ countdown_timer' = countdown_timer
          /\ state' # STATE_COUNTDOWN => state' \in {STATE_TYPING, STATE_IDLE}]_vars

\* C21: once stop() has set a worker's stop flag the flag stays set and the
\* worker emits at most one further unit before it terminates: only a worker
\* that was already past its second stop check emits, one unit of at most
\* max_chunk characters, and it never gets past the stop checks again; a
\* worker that was in the pause loop leaves it for termination with stopped,
\* having emitted nothing.
C21_StopWithinOneUnit ==
    [][\A w \in Workers :
          LET me == workers[w]
              nxt == workers'[w]
          IN me.stop_flag =>
                /\ nxt.stop_flag
                /\ me.pc # "emit" =>
                      /\ nxt.pc # "emit"
                      /\ nxt.out = me.out
                /\ (me.pc = "emit" /\ nxt.pc # "emit") =>
                      /\ nxt.pc \in {"top", "done"}
                      /\ nxt.out # me.out =>
                            /\ Len(nxt.out) = Len(me.out) + 1
                            /\ nxt.out[Len(nxt.out)][2] - nxt.out[Len(nxt.out)][1] < max_chunk
                /\ (me.pc = "wait" /\ nxt.pc # "wait") =>
                      /\ nxt.pc = "done"
                      /\ LastSignal(nxt) = "stopped"
                      /\ nxt.out = me.out]_vars

\* stop() reached a worker that was past its second stop check: the unit it
\* is about to emit is its last one
C21_Witness ==
    \E w \in Workers :
       /\ workers[w].stop_flag
       /\ workers[w].pc = "emit"
       /\ workers[w].i + 1 < Len(workers[w].text)

\* the notifications that end a run
Terminal == {"finished", "stopped", "error"}

\* C22 as stated: a stopped worker eventually terminates with a terminal
\* notification, and a worker whose pause flag is set and whose stop flag is
\* clear emits nothing and does not terminate as long as the flags stay so.
C22_PausedWorkerIsSilent ==
    /\ \A w \in 1..MaxWorkers :
          (w \in Workers /\ workers[w].stop_flag)
             ~> (w \in Workers /\ workers[w].pc = "done"
                              /\ LastSignal(workers[w]) \in Terminal)
    /\ [][\A w \in Workers :
             LET me == workers[w]
                 nxt == workers'[w]
             IN (/\ me.pause_flag /\ ~me.stop_flag
                 /\ nxt.pause_flag /\ ~nxt.stop_flag) =>
                   /\ nxt.out = me.out
                   /\ nxt.pc = "done" => me.pc = "done"]_vars

\* C22: with the worker threads scheduled fairly, a worker whose stop flag is
\* set eventually terminates with a terminal notification, also when its pause
\* flag is set and it is never resumed; a worker that has reached the pause
\* loop with its pause flag set and its stop flag clear takes no step at all
\* (no unit, no notification, no termination) until one of the flags changes.
C22_StoppedTerminates ==
    /\ \A w \in 1..MaxWorkers :
          (w \in Workers /\ workers[w].stop_flag)
             ~> (w \in Workers /\ workers[w].pc = "done"
                              /\ LastSignal(workers[w]) \in Terminal)
    /\ [][\A w \in Workers :
             LET me == workers[w]
                 nxt == workers'[w]
             IN (/\ me.pc = "wait"
                 /\ me.pause_flag /\ ~me.stop_flag
                 /\ nxt.pause_flag /\ ~nxt.stop_flag) => nxt = me]_vars

\* a worker that was paused and never resumed was stopped and has terminated
\* with stopped, the text not completed
C22_Witness ==
    \E w \in Workers :
       /\ workers[w].pause_flag
       /\ workers[w].stop_flag
       /\ workers[w].pc = "done"
       /\ LastSignal(workers[w]) = "stopped"
       /\ workers[w].i < Len(workers[w].text)

\* C23: whenever the controller state is Paused and the current worker has
\* not terminated, that worker's pause flag is set.
C23_PausedMeansFlagSet ==
    (/\ state = STATE_PAUSED
     /\ typing_worker # 0
     /\ workers[typing_worker].pc # "done") => workers[typing_worker].pause_flag

\* C24: a resume in front of a valid window f is accepted; the worker's target
\* becomes f and its pause flag is cleared, the target being written first: in
\* no state the worker thread can see during the resume is the pause flag
\* clear while the target is not f.  The focus check of the resumed worker
\* compares the foreground title against f, and nothing but an accepted resume
\* changes a worker's target.
C24_ResumeRetargets ==
    /\ [](
          (state = STATE_PAUSED /\ typing_worker # 0) =>
             \A f \in FgStates \ Refused, from_hotkey \in BOOLEAN :
                LET w == typing_worker
                    writes == RetargetAndResume(Ctl, f)
                    c == _resume_typing(Ctl, from_hotkey, f)
                    checking == [c.workers[w] EXCEPT !.pc = "focus"]
                IN /\ c.state = STATE_TYPING
                   /\ c.workers = writes[Len(writes)].workers
                   /\ c.workers[w].target_window_title = f
                   /\ ~c.workers[w].pause_flag
                   /\ \A k \in 1..Len(writes) :
                         ~writes[k].workers[w].pause_flag =>
                            writes[k].workers[w].target_window_title = f
                   /\ ~c.workers[w].stop_flag =>
                         \A g \in FgStates \ {"raise"} :
                            (AfterCheck(checking, g) = "focus_lost") <=> (g # f)
         )
    /\ [][\A w \in Workers :
             workers'[w].target_window_title # workers[w].target_window_title =>
                /\ state = STATE_PAUSED
                /\ state' = STATE_TYPING
                /\ w = typing_worker
                /\ ~workers'[w].pause_flag]_vars

\* a worker that lost the focus was resumed in front of window B and has
\* emitted its next unit after a focus check against B
C24_Witness ==
    \E w \in Workers :
       /\ Signals(workers[w]) = <<"focus_paused", "progress_changed">>
       /\ workers[w].target_window_title = "B"
       /\ ~workers[w].pause_flag

\* C25: for a newline or a tab the worker invokes the key-press primitive
\* first and the literal write only when the key press failed; exactly one of
\* the two delivers the character.
C25_KeyPressFirst ==
    \A w \in Workers :
       LET me == workers[w] IN
       (me.pc = "emit" /\ me.text[me.i + 1] \in {10, 9}) =>
          \A kb_ok \in BOOLEAN, pag_ok \in BOOLEAN :
             LET ch == me.text[me.i + 1]
                 calls == _type_char_calls(ch, kb_ok, pag_ok)
                 delivered == _type_char(ch, kb_ok, pag_ok)
             IN /\ calls # <<>>
                /\ calls[1] = "pyautogui.press"
                /\ Len(calls) > 1 => (~pag_ok /\ calls = <<"pyautogui.press", "keyboard.write">>)
                /\ delivered # "raise" => delivered = calls[Len(calls)]

\* the tokens F1 .. F24 as the capture field writes them
DecimalDigits == <<"0", "1", "2", "3", "4", "5", "6", "7", "8", "9">>
Decimal(n) ==
    IF n < 10 THEN <<DecimalDigits[n + 1]>>
    ELSE <<DecimalDigits[(n \div 10) + 1], DecimalDigits[(n % 10) + 1]>>
FunctionKeyTokens == {<<"F">> \o Decimal(n) : n \in 1..24}

\* C26: a commit whose last token is neither a single character nor one of
\* F1 .. F24 is rejected and the prior binding is retained; so are Ctrl+F25,
\* Ctrl+F0 and Ctrl+F99.
C26_FunctionKeyRange ==
    capturing =>
       \A in \in {<<current_sequence, has_main_key>>,
                  <<<<"C", "t", "r", "l", "+", "F", "2", "5">>, TRUE>>,
                  <<<<"C", "t", "r", "l", "+", "F", "0">>, TRUE>>,
                  <<<<"C", "t", "r", "l", "+", "F", "9", "9">>, TRUE>>} :
       \A remove_ok \in BOOLEAN, add_ok \in BOOLEAN :
          LET tokens == Tokens(in[1])
              h == _on_hotkey_committed(Hk, in[1], in[2], remove_ok, add_ok)
          IN (/\ tokens # <<>>
              /\ Len(tokens[Len(tokens)]) # 1
              /\ upper(tokens[Len(tokens)]) \notin FunctionKeyTokens) =>
                /\ h.hotkey_str = hotkey_str
                /\ h.hotkey_handle = hotkey_handle
                /\ h.hotkey_occupied = hotkey_occupied
                /\ h.prim_calls = <<>>

\* C27: whenever the controller state is Idle, every worker that was started
\* has terminated or has its stop flag set.
C27_IdleMeansNoLiveWorker ==
    state = STATE_IDLE =>
       \A w \in Workers : workers[w].pc = "done" \/ workers[w].stop_flag

\* the terminal notifications a worker has emitted
TerminalCount(me) == Cardinality({k \in 1..Len(me.sent) : me.sent[k][1] \in Terminal})

\* C28: a worker that is running has emitted no terminal notification; a
\* worker that has terminated has emitted exactly one (finished, stopped or
\* error), as its last notification, and emits no notification and no
\* character afterwards; the cursor stays within 0 .. len(text), and it is
\* len(text) when finished was emitted for a non-empty text.
C28_OneTerminal ==
    /\ [](\A w \in Workers :
             LET me == workers[w] IN
             /\ me.i \in 0..Len(me.text)
             /\ TerminalCount(me) = (IF me.pc = "done" THEN 1 ELSE 0)
             /\ me.pc = "done" => LastSignal(me) \in Terminal
             /\ (LastSignal(me) = "finished" /\ me.text # <<>>) => me.i = Len(me.text))
    /\ [][\A w \in Workers :
             workers[w].pc = "done" =>
                /\ workers'[w].sent = workers[w].sent
                /\ workers'[w].out = workers[w].out
                /\ workers'[w].i = workers[w].i
                /\ workers'[w].pc = "done"]_vars

\* a session of two units that ended with finished, every notification
\* delivered, the worker's stop flag never set
C28_Witness ==
    /\ state = STATE_IDLE
    /\ queue = <<>>
    /\ \E w \in Workers :
          /\ workers[w].pc = "done"
          /\ ~workers[w].stop_flag
          /\ workers[w].i = Len(workers[w].text)
          /\ Signals(workers[w]) = <<"progress_changed", "progress_changed", "finished">>

====
